---- MODULE Spec2Model ----
(***************************************************************************)
(* analytics-hub backend: credential engine (utils/crypto.js), admin       *)
(* routes (routes/admin.js), server start-up (server.js), and the tenant   *)
(* config cache, connection router and auth gate they drive.               *)
(*                                                                         *)
(* Strings are sequences of UTF-16 code units, buffers are sequences of    *)
(* bytes; a JavaScript value is a record [t, s] (see JsStr).               *)
(***************************************************************************)
EXTENDS Integers, Sequences, FiniteSets, TLC

\* ------------------------------------------------------------------------
\* JavaScript values
\* ------------------------------------------------------------------------

JsStr(s) == [t |-> "str", s |-> s]
JsNull == [t |-> "null", s |-> <<>>]
JsUndefined == [t |-> "undefined", s |-> <<>>]
JsTrue == [t |-> "true", s |-> <<>>]
JsFalse == [t |-> "false", s |-> <<>>]
\* an exception leaving the function
Thrown == [t |-> "throw", s |-> <<>>]

\* JavaScript truthiness of a value (a non-empty string, or true)
Truthy(v) == (v.t = "str" /\ Len(v.s) > 0) \/ v.t = "true"

\* a || b
JsOr(a, b) == IF Truthy(a) THEN a ELSE b

\* ------------------------------------------------------------------------
\* Characters used by the code, as code units
\* ------------------------------------------------------------------------

\* ":" separates the IV from the ciphertext
COLON == <<58>>
\* "\n" joins the fields of the signed message
NEWLINE == <<10>>
\* "=" pads base64
EQUALS == <<61>>

\* ------------------------------------------------------------------------
\* Buffer encodings: hex, utf8, base64
\* ------------------------------------------------------------------------

RECURSIVE Xor(_, _)
\* bitwise exclusive or of two bytes
Xor(a, b) ==
    IF a = 0 THEN b
    ELSE IF b = 0 THEN a
    ELSE ((a + b) % 2) + 2 * Xor(a \div 2, b \div 2)

\* lowercase hex digit of a nibble
HexChar(n) == IF n < 10 THEN 48 + n ELSE 87 + n

\* value of a hex digit, -1 when the character is none
HexVal(c) ==
    IF c \in 48..57 THEN c - 48
    ELSE IF c \in 97..102 THEN c - 87
    ELSE IF c \in 65..70 THEN c - 55
    ELSE -1

\* buf.toString('hex')
ToHex(bytes) ==
    [i \in 1..(2 * Len(bytes)) |->
        IF i % 2 = 1 THEN HexChar(bytes[(i + 1) \div 2] \div 16)
        ELSE HexChar(bytes[i \div 2] % 16)]

RECURSIVE HexPairs(_, _)
\* number of leading two-digit groups of s that are both hex digits
HexPairs(s, n) ==
    IF 2 * n + 2 > Len(s) THEN n
    ELSE IF HexVal(s[2 * n + 1]) < 0 \/ HexVal(s[2 * n + 2]) < 0 THEN n
    ELSE HexPairs(s, n + 1)

\* Buffer.from(s, 'hex'): decoding stops at the first group that is not hex
FromHex(s) ==
    [i \in 1..HexPairs(s, 0) |-> 16 * HexVal(s[2 * i - 1]) + HexVal(s[2 * i])]

IsHighSurrogate(c) == c \in 55296..56319
IsLowSurrogate(c) == c \in 56320..57343

RECURSIVE Utf8Encode(_)
\* Buffer.from(s, 'utf8'): an unpaired surrogate is written as U+FFFD
Utf8Encode(s) ==
    IF Len(s) = 0 THEN <<>>
    ELSE LET c == s[1] IN
        IF c < 128 THEN <<c>> \o Utf8Encode(Tail(s))
        ELSE IF c < 2048 THEN
            <<192 + (c \div 64), 128 + (c % 64)>> \o Utf8Encode(Tail(s))
        ELSE IF IsHighSurrogate(c) /\ Len(s) > 1 /\ IsLowSurrogate(s[2]) THEN
            LET cp == 65536 + (c - 55296) * 1024 + (s[2] - 56320) IN
            <<240 + (cp \div 262144), 128 + ((cp \div 4096) % 64),
              128 + ((cp \div 64) % 64), 128 + (cp % 64)>>
                \o Utf8Encode(Tail(Tail(s)))
        ELSE IF IsHighSurrogate(c) \/ IsLowSurrogate(c) THEN
            <<239, 191, 189>> \o Utf8Encode(Tail(s))
        ELSE
            <<224 + (c \div 4096), 128 + ((c \div 64) % 64), 128 + (c % 64)>>
                \o Utf8Encode(Tail(s))

IsCont(b, i) == i <= Len(b) /\ b[i] \in 128..191

RECURSIVE Utf8Decode(_)
\* buf.toString('utf8'): an ill-formed byte becomes U+FFFD
Utf8Decode(b) ==
    IF Len(b) = 0 THEN <<>>
    ELSE LET c == b[1] IN
        IF c < 128 THEN <<c>> \o Utf8Decode(Tail(b))
        ELSE IF c \in 194..223 /\ IsCont(b, 2) THEN
            <<(c - 192) * 64 + (b[2] - 128)>> \o Utf8Decode(SubSeq(b, 3, Len(b)))
        ELSE IF c \in 224..239 /\ IsCont(b, 2) /\ IsCont(b, 3)
                /\ (c - 224) * 4096 + (b[2] - 128) * 64 + (b[3] - 128) >= 2048
                /\ (c - 224) * 4096 + (b[2] - 128) * 64 + (b[3] - 128) \notin 55296..57343 THEN
            <<(c - 224) * 4096 + (b[2] - 128) * 64 + (b[3] - 128)>>
                \o Utf8Decode(SubSeq(b, 4, Len(b)))
        ELSE IF c \in 240..244 /\ IsCont(b, 2) /\ IsCont(b, 3) /\ IsCont(b, 4)
                /\ (c - 240) * 262144 + (b[2] - 128) * 4096 + (b[3] - 128) * 64
                       + (b[4] - 128) \in 65536..1114111 THEN
            LET cp == (c - 240) * 262144 + (b[2] - 128) * 4096
                          + (b[3] - 128) * 64 + (b[4] - 128) - 65536 IN
            <<55296 + (cp \div 1024), 56320 + (cp % 1024)>>
                \o Utf8Decode(SubSeq(b, 5, Len(b)))
        ELSE <<65533>> \o Utf8Decode(Tail(b))

\* the base64 character of a sextet
B64Char(n) ==
    IF n < 26 THEN 65 + n
    ELSE IF n < 52 THEN 71 + n
    ELSE IF n < 62 THEN n - 4
    ELSE IF n = 62 THEN 43
    ELSE 47

\* the sextet of a base64 (or base64url) character, -1 when it is none
B64Val(c) ==
    IF c \in 65..90 THEN c - 65
    ELSE IF c \in 97..122 THEN c - 71
    ELSE IF c \in 48..57 THEN c + 4
    ELSE IF c = 43 \/ c = 45 THEN 62
    ELSE IF c = 47 \/ c = 95 THEN 63
    ELSE -1

RECURSIVE ToBase64(_)
\* buf.toString('base64')
ToBase64(b) ==
    IF Len(b) = 0 THEN <<>>
    ELSE IF Len(b) = 1 THEN
        <<B64Char(b[1] \div 4), B64Char((b[1] % 4) * 16)>> \o EQUALS \o EQUALS
    ELSE IF Len(b) = 2 THEN
        <<B64Char(b[1] \div 4), B64Char((b[1] % 4) * 16 + (b[2] \div 16)),
          B64Char((b[2] % 16) * 4)>> \o EQUALS
    ELSE
        <<B64Char(b[1] \div 4), B64Char((b[1] % 4) * 16 + (b[2] \div 16)),
          B64Char((b[2] % 16) * 4 + (b[3] \div 64)), B64Char(b[3] % 64)>>
            \o ToBase64(SubSeq(b, 4, Len(b)))

RECURSIVE B64Sextets(_)
\* the sextets of s: characters outside the alphabet are skipped, "=" ends the data
B64Sextets(s) ==
    IF Len(s) = 0 \/ <<s[1]>> = EQUALS THEN <<>>
    ELSE IF B64Val(s[1]) < 0 THEN B64Sextets(Tail(s))
    ELSE <<B64Val(s[1])>> \o B64Sextets(Tail(s))

RECURSIVE B64Bytes(_)
\* the bytes of a sequence of sextets; a lone trailing sextet carries no byte
B64Bytes(x) ==
    IF Len(x) < 2 THEN <<>>
    ELSE IF Len(x) = 2 THEN <<x[1] * 4 + (x[2] \div 16)>>
    ELSE IF Len(x) = 3 THEN
        <<x[1] * 4 + (x[2] \div 16), (x[2] % 16) * 16 + (x[3] \div 4)>>
    ELSE
        <<x[1] * 4 + (x[2] \div 16), (x[2] % 16) * 16 + (x[3] \div 4),
          (x[3] % 4) * 64 + x[4]>> \o B64Bytes(SubSeq(x, 5, Len(x)))

\* Buffer.from(s, 'base64') of a string
FromBase64(s) == B64Bytes(B64Sextets(s))

\* ------------------------------------------------------------------------
\* Hash, HMAC and block cipher
\*
\* SHA-256 and AES cannot be computed here. Sha256 is a 32-byte packing that
\* is collision-free on inputs of at most 31 bytes (all inputs the checks
\* draw), and the block cipher is a keyed permutation of 16-byte blocks run
\* in CBC mode with PKCS#7 padding, as aes-256-cbc is.
\* ------------------------------------------------------------------------

\* bytes of a SHA-256 digest
DigestLen == 32
\* bytes of an AES block, and of the IV
BlockLen == 16
\* bytes of an HMAC-SHA256 key block
HmacBlockLen == 64

RECURSIVE SumAt(_, _, _)
\* sum of the bytes of b at positions i, i + step, i + 2 step, ...
SumAt(b, i, step) == IF i > Len(b) THEN 0 ELSE (b[i] + SumAt(b, i + step, step)) % 256

\* crypto.createHash('sha256').update(b).digest()
Sha256(b) ==
    [i \in 1..DigestLen |->
        IF i = 1 THEN Len(b) % 256 ELSE SumAt(b, i - 1, DigestLen - 1)]

RECURSIVE StripZeros(_)
StripZeros(b) ==
    IF Len(b) > 0 /\ b[Len(b)] = 0 THEN StripZeros(SubSeq(b, 1, Len(b) - 1)) ELSE b

\* the HMAC key block: a key longer than the block is hashed, a shorter one is
\* padded with zero bytes (so trailing zero bytes of a key do not count)
HmacKey(k) == StripZeros(IF Len(k) > HmacBlockLen THEN Sha256(k) ELSE k)

\* crypto.createHmac('sha256', key).update(msg).digest()
HmacSha256(key, msg) ==
    LET k == HmacKey(key) IN Sha256(<<Len(k)>> \o k \o msg)

\* the byte the keyed permutation adds at position i of a block
SubByte(key, i) == (key[i] + key[i + BlockLen] + SumAt(key, 1, 1)) % 256

BlockEncrypt(key, blk) == [i \in 1..BlockLen |-> (blk[i] + SubByte(key, i)) % 256]

BlockDecrypt(key, blk) == [i \in 1..BlockLen |-> (blk[i] + 256 - SubByte(key, i)) % 256]

XorBlock(a, b) == [i \in 1..BlockLen |-> Xor(a[i], b[i])]

RECURSIVE CbcEncrypt(_, _, _)
\* CBC over whole blocks
CbcEncrypt(key, prev, data) ==
    IF Len(data) < BlockLen THEN <<>>
    ELSE LET c == BlockEncrypt(key, XorBlock(SubSeq(data, 1, BlockLen), prev)) IN
        c \o CbcEncrypt(key, c, SubSeq(data, BlockLen + 1, Len(data)))

RECURSIVE CbcDecrypt(_, _, _)
CbcDecrypt(key, prev, data) ==
    IF Len(data) < BlockLen THEN <<>>
    ELSE LET c == SubSeq(data, 1, BlockLen) IN
        XorBlock(BlockDecrypt(key, c), prev)
            \o CbcDecrypt(key, c, SubSeq(data, BlockLen + 1, Len(data)))

\* cipher.update(data): the whole blocks of data, encrypted
CipherUpdate(key, iv, data) ==
    CbcEncrypt(key, iv, SubSeq(data, 1, BlockLen * (Len(data) \div BlockLen)))

\* cipher.final(): the rest of data, padded to one block, encrypted
CipherFinal(key, iv, data) ==
    LET done == CipherUpdate(key, iv, data)
        prev == IF Len(done) = 0 THEN iv
                ELSE SubSeq(done, Len(done) - BlockLen + 1, Len(done))
        rest == SubSeq(data, Len(done) + 1, Len(data))
        n == BlockLen - Len(rest)
    IN BlockEncrypt(key, XorBlock(rest \o [i \in 1..n |-> n], prev))

\* whether the last block of decrypted data ends in PKCS#7 padding
PaddingOk(pt) ==
    /\ Len(pt) >= BlockLen
    /\ pt[Len(pt)] \in 1..BlockLen
    /\ \A i \in (Len(pt) - pt[Len(pt)] + 1)..Len(pt) : pt[i] = pt[Len(pt)]

\* ------------------------------------------------------------------------
\* utils/crypto.js
\* ------------------------------------------------------------------------

\* s.includes(c)
Includes(s, c) == \E i \in 1..Len(s) : <<s[i]>> = c

\* index of the first c in s (s includes c)
FirstIndex(s, c) ==
    CHOOSE i \in 1..Len(s) : <<s[i]>> = c /\ \A j \in 1..(i - 1) : <<s[j]>> # c

\* process.env.DATA_ENCRYPTION_KEY || process.env.ADMIN_TOKEN
MasterKey(processEnv) == JsOr(processEnv.DATA_ENCRYPTION_KEY, processEnv.ADMIN_TOKEN)

\* crypto.createHash('sha256').update(String(secretKey)).digest()
DeriveKey(secretKey) == Sha256(Utf8Encode(secretKey.s))

\* the signed message: the six fields joined by "\n" in their fixed order
SignedMessage(method, path, timestamp, deviceId, userId, body) ==
    method \o NEWLINE \o path \o NEWLINE \o timestamp \o NEWLINE
        \o deviceId \o NEWLINE \o userId \o NEWLINE \o body

\* generateSignature with userId and body left out of the message
generateSignatureShort(method, path, timestamp, deviceId, userId, body, secretKey) ==
    ToBase64(HmacSha256(Utf8Encode(secretKey),
        Utf8Encode(method \o NEWLINE \o path \o NEWLINE \o deviceId)))

\* generateSignature with the timestamp left out of the message
generateSignatureNoTimestamp(method, path, timestamp, deviceId, userId, body, secretKey) ==
    ToBase64(HmacSha256(Utf8Encode(secretKey),
        Utf8Encode(method \o NEWLINE \o path \o NEWLINE \o deviceId \o NEWLINE
                       \o userId \o NEWLINE \o body)))

generateSignature(method, path, timestamp, deviceId, userId, body, secretKey) ==
    ToBase64(HmacSha256(Utf8Encode(secretKey),
        Utf8Encode(SignedMessage(method, path, timestamp, deviceId, userId, body))))

\* crypto.timingSafeEqual(a, b): throws when the lengths differ
TimingSafeEqual(a, b) ==
    IF Len(a) # Len(b) THEN Thrown ELSE IF a = b THEN JsTrue ELSE JsFalse

\* the body of verifySignature's try block; Buffer.from throws on a non-string
VerifyTry(signature, expectedSignature) ==
    IF signature.t # "str" \/ expectedSignature.t # "str" THEN Thrown
    ELSE TimingSafeEqual(FromBase64(signature.s), FromBase64(expectedSignature.s))

\* verifySignature without its catch
verifySignatureNoCatch(signature, expectedSignature) ==
    VerifyTry(signature, expectedSignature)

verifySignature(signature, expectedSignature) ==
    LET r == VerifyTry(signature, expectedSignature) IN
    IF r = Thrown THEN JsFalse ELSE r

\* encrypt that never calls cipher.final()
encryptNoFinal(text, processEnv, iv) ==
    IF ~Truthy(MasterKey(processEnv)) \/ text.t # "str" THEN Thrown
    ELSE JsStr(ToHex(iv) \o COLON
            \o ToHex(CipherUpdate(DeriveKey(MasterKey(processEnv)), iv, Utf8Encode(text.s))))

\* encrypt(text), with the IV that crypto.randomBytes(16) returned
encrypt(text, processEnv, iv) ==
    IF ~Truthy(MasterKey(processEnv)) THEN Thrown
    ELSE IF text.t # "str" THEN Thrown
    ELSE LET key == DeriveKey(MasterKey(processEnv))
             data == Utf8Encode(text.s)
         IN JsStr(ToHex(iv) \o COLON \o ToHex(CipherUpdate(key, iv, data))
                    \o ToHex(CipherFinal(key, iv, data)))

\* the body of decrypt's try block: a string, or Thrown
DecipherTry(key, iv, encryptedText) ==
    IF Len(iv) # BlockLen THEN Thrown                  \* createDecipheriv
    ELSE IF Len(encryptedText) % 2 = 1 THEN Thrown     \* update: odd hex length
    ELSE LET ct == FromHex(encryptedText) IN
        IF Len(ct) = 0 \/ Len(ct) % BlockLen # 0 THEN Thrown   \* final: block length
        ELSE LET pt == CbcDecrypt(key, iv, ct) IN
            IF ~PaddingOk(pt) THEN Thrown                       \* final: bad decrypt
            ELSE JsStr(Utf8Decode(SubSeq(pt, 1, Len(pt) - pt[Len(pt)])))

\* decrypt whose try block lets the exception out
decryptNoCatch(text, processEnv) ==
    IF ~Truthy(MasterKey(processEnv)) THEN Thrown
    ELSE IF ~Truthy(text) \/ ~Includes(text.s, COLON) THEN text
    ELSE LET at == FirstIndex(text.s, COLON) IN
        DecipherTry(DeriveKey(MasterKey(processEnv)), FromHex(SubSeq(text.s, 1, at - 1)),
                    SubSeq(text.s, at + 1, Len(text.s)))

decrypt(text, processEnv) ==
    IF ~Truthy(MasterKey(processEnv)) THEN Thrown
    ELSE IF ~Truthy(text) \/ ~Includes(text.s, COLON) THEN text
    ELSE LET at == FirstIndex(text.s, COLON)
             key == DeriveKey(MasterKey(processEnv))
             iv == FromHex(SubSeq(text.s, 1, at - 1))
             encryptedText == SubSeq(text.s, at + 1, Len(text.s))
             r == DecipherTry(key, iv, encryptedText)
         IN IF r = Thrown THEN JsNull ELSE r

\* ------------------------------------------------------------------------
\* State
\* ------------------------------------------------------------------------

VARIABLES
    \* encrypt / decrypt of one secret
    cEnv,        \* process.env: DATA_ENCRYPTION_KEY, ADMIN_TOKEN
    cText,       \* the plaintext given to encrypt
    cEnvelope,   \* the stored text given to decrypt
    cTamper,     \* what happened to the envelope since encrypt returned it
    cOut,        \* what decrypt returned
    cPc,
    \* generateSignature / verifySignature of one request
    sReq,        \* the seven inputs of the first signature
    sReq2,       \* the seven inputs of the second signature
    sSigA,       \* the candidate signature
    sSigB,       \* the expected signature
    sMangleA,    \* what happened to the candidate since it was computed
    sMangleB,    \* what happened to the expected signature
    sOut,        \* what verifySignature returned
    sPc,
    \* the auth gate, one request
    gCache,      \* tenant config cache: tenantId -> config, or undefined
    gEnforce,    \* whether the timestamp tolerance window is enforced
    gReq,        \* the request: six identity headers, method, path, body
    gSigned,     \* what the client signed: its timestamp, secret and damage
    gState,      \* Unverified, Verified, Admitted, Rejected
    gStep,       \* the step of the gate the request waits at
    gReason,     \* why the request was rejected
    gContext,    \* the tenant context attached to the request
    gHistory,    \* the states the request has been in
    \* the server process: start-up, admin routes, config cache, pool router
    env,         \* process.env: DATA_ENCRYPTION_KEY, ADMIN_TOKEN
    server,      \* startServer: starting, initialized, loaded, listening, exited
    store,       \* analytics_projects: tenantId -> row
    cache,       \* ProjectManager: tenantId -> cached config
    registry,    \* DatabaseManager: tenantId -> pool handle, 0 when none
    pools,       \* every pool constructed so far; a handle is an index
    lock,        \* who mutates the cache or the registry: <<>> when nobody
    callPc,      \* getPool callers: idle, wait, locked, done
    callTenant,
    callResult,  \* what getPool returned to the caller
    callPath,    \* how it returned: fast (existing handle) or slow (under the lock)
    adminPc,     \* admin handlers: idle, reloadWait, reloadFetched, closeWait, closing
    adminReq,    \* the request the handler serves
    adminFetched,\* the config reloadProject fetched
    adminStatus  \* the status of the handler's last response, 0 before any

cryptoVars == <<cEnv, cText, cEnvelope, cTamper, cOut, cPc>>
sigVars == <<sReq, sReq2, sSigA, sSigB, sMangleA, sMangleB, sOut, sPc>>
gateVars == <<gCache, gEnforce, gReq, gSigned, gState, gStep, gReason, gContext, gHistory>>
routerVars == <<cache, registry, pools, lock>>
callVars == <<callPc, callTenant, callResult, callPath>>
adminVars == <<adminPc, adminReq, adminFetched, adminStatus>>
serverVars == <<env, server, store, routerVars, callVars, adminVars>>
vars == <<cryptoVars, sigVars, gateVars, serverVars>>
otherThanCrypto == <<sigVars, gateVars, serverVars>>
otherThanSig == <<cryptoVars, gateVars, serverVars>>
otherThanGate == <<cryptoVars, sigVars, serverVars>>
otherThanServer == <<cryptoVars, sigVars, gateVars>>

\* ------------------------------------------------------------------------
\* Inputs
\* ------------------------------------------------------------------------

\* longest run of "a" given to encrypt (one more than an AES block)
MaxTextLen == 17

\* plaintexts: ASCII, ":", two-, three- and four-byte characters, unpaired
\* surrogates, and runs around the block length
Plaintexts ==
    { <<97>>, <<112, 58, 119>>, <<233>>, <<8364, 97>>, <<55357, 56832>>,
      <<55296>>, <<97, 56320>> }
        \cup { [i \in 1..n |-> 97] : n \in (BlockLen - 1)..MaxTextLen }

\* no unpaired surrogate in s
WellFormed(s) ==
    \A i \in 1..Len(s) :
        /\ IsHighSurrogate(s[i]) => (i < Len(s) /\ IsLowSurrogate(s[i + 1]))
        /\ IsLowSurrogate(s[i]) => (i > 1 /\ IsHighSurrogate(s[i - 1]))

\* "k1", "k2": values of DATA_ENCRYPTION_KEY; "tk": value of ADMIN_TOKEN
KeyK1 == JsStr(<<107, 49>>)
KeyK2 == JsStr(<<107, 50>>)
TokenTk == JsStr(<<116, 107>>)

Envs ==
    [DATA_ENCRYPTION_KEY : {JsUndefined, KeyK1, KeyK2},
     ADMIN_TOKEN : {JsUndefined, TokenTk}]

\* what crypto.randomBytes(16) may return
Ivs == { [i \in 1..BlockLen |-> (seed * i) % 256] : seed \in {7, 201} }

\* "zz": two characters that are no hex digits
JUNK == <<122, 122>>

TamperKinds ==
    { "shortIv", "nonHexIv", "ivJunkTail", "nonHexCipher", "junkTail",
      "truncatedOdd", "truncatedEven", "noCipher", "noSeparator", "secondColon" }

\* a stored envelope s = hexIV:hexCiphertext, damaged
Tamper(kind, s) ==
    LET at == FirstIndex(s, COLON)
        ivHex == SubSeq(s, 1, at - 1)
        ctHex == SubSeq(s, at + 1, Len(s))
    IN CASE kind = "shortIv" -> SubSeq(s, 3, Len(s))
         [] kind = "nonHexIv" -> JUNK \o SubSeq(s, 3, Len(s))
         [] kind = "ivJunkTail" -> ivHex \o JUNK \o COLON \o ctHex
         [] kind = "nonHexCipher" -> ivHex \o COLON \o JUNK \o SubSeq(ctHex, 3, Len(ctHex))
         [] kind = "junkTail" -> s \o JUNK
         [] kind = "truncatedOdd" -> SubSeq(s, 1, Len(s) - 1)
         [] kind = "truncatedEven" -> SubSeq(s, 1, Len(s) - 2)
         [] kind = "noCipher" -> ivHex \o COLON
         [] kind = "noSeparator" -> ivHex \o ctHex
         [] kind = "secondColon" ->
                LET cut == IF Len(ctHex) < 4 THEN Len(ctHex) ELSE 4 IN
                ivHex \o COLON \o SubSeq(ctHex, 1, cut) \o COLON
                    \o SubSeq(ctHex, cut + 1, Len(ctHex))

\* ------------------------------------------------------------------------
\* encrypt and decrypt of one secret
\* ------------------------------------------------------------------------

CryptoInit ==
    /\ cEnv \in Envs
    /\ cText \in { JsStr(p) : p \in Plaintexts }
    /\ cEnvelope = JsNull
    /\ cTamper = "none"
    /\ cOut = JsUndefined
    /\ cPc = "start"
    \* nothing is signed
    /\ sReq = <<>> /\ sReq2 = <<>>
    /\ sSigA = JsUndefined /\ sSigB = JsUndefined
    /\ sMangleA = "none" /\ sMangleB = "none"
    /\ sOut = JsUndefined /\ sPc = "idle"
    \* no request is at the gate
    /\ gCache = <<>> /\ gEnforce = FALSE /\ gReq = <<>> /\ gSigned = <<>>
    /\ gState = "idle" /\ gStep = 0 /\ gReason = "" /\ gContext = JsUndefined
    /\ gHistory = <<>>
    \* the server process is not running
    /\ env = [DATA_ENCRYPTION_KEY |-> JsUndefined, ADMIN_TOKEN |-> JsUndefined]
    /\ server = "off" /\ store = <<>> /\ cache = <<>> /\ registry = <<>>
    /\ pools = <<>> /\ lock = <<>>
    /\ callPc = <<>> /\ callTenant = <<>> /\ callResult = <<>> /\ callPath = <<>>
    /\ adminPc = <<>> /\ adminReq = <<>> /\ adminFetched = <<>> /\ adminStatus = 0

\* encrypt(text) with a fresh IV; without a master key it throws
CryptoEncrypt ==
    /\ cPc = "start"
    /\ \E iv \in Ivs :
        LET r == encrypt(cText, cEnv, iv) IN
        /\ cEnvelope' = (IF r = Thrown THEN JsNull ELSE r)
        /\ cOut' = (IF r = Thrown THEN Thrown ELSE cOut)
        /\ cPc' = (IF r = Thrown THEN "failed" ELSE "encrypted")
    /\ UNCHANGED <<cEnv, cText, cTamper, otherThanCrypto>>

\* the stored envelope is damaged
CryptoTamper ==
    /\ cPc = "encrypted" /\ cTamper = "none"
    /\ \E kind \in TamperKinds :
        /\ cEnvelope' = JsStr(Tamper(kind, cEnvelope.s))
        /\ cTamper' = kind
    /\ UNCHANGED <<cEnv, cText, cOut, cPc, otherThanCrypto>>

\* the process is restarted with another master key, or with none
CryptoRekey ==
    /\ cPc = "encrypted" /\ cTamper = "none"
    /\ \E e \in Envs :
        /\ MasterKey(e) # MasterKey(cEnv)
        /\ cEnv' = e
        /\ cTamper' = (IF Truthy(MasterKey(e)) THEN "otherKey" ELSE "noKey")
    /\ UNCHANGED <<cText, cEnvelope, cOut, cPc, otherThanCrypto>>

\* decrypt(text)
CryptoDecrypt ==
    /\ cPc = "encrypted"
    /\ cOut' = decrypt(cEnvelope, cEnv)
    /\ cPc' = "decrypted"
    /\ UNCHANGED <<cEnv, cText, cEnvelope, cTamper, otherThanCrypto>>

CryptoNext == CryptoEncrypt \/ CryptoTamper \/ CryptoRekey \/ CryptoDecrypt

\* ------------------------------------------------------------------------
\* generateSignature and verifySignature of one request
\* ------------------------------------------------------------------------

FieldNames == {"method", "path", "timestamp", "deviceId", "userId", "body", "secret"}

\* the values a field is drawn from: "G" "P"; "/a" "/b"; "1" "2" "12";
\* "d" "e"; "u" "v"; "" "{}"; "a1" "b2"
FieldValues(f) ==
    CASE f = "method" -> { <<71>>, <<80>> }
      [] f = "path" -> { <<47, 97>>, <<47, 98>> }
      [] f = "timestamp" -> { <<49>>, <<50>>, <<49, 50>> }
      [] f = "deviceId" -> { <<100>>, <<101>> }
      [] f = "userId" -> { <<117>>, <<118>> }
      [] f = "body" -> { <<>>, <<123, 125>> }
      [] f = "secret" -> { <<97, 49>>, <<98, 50>> }

SigInputs ==
    [method : FieldValues("method"), path : { <<47, 97>> },
     timestamp : { <<49>>, <<49, 50>> }, deviceId : { <<100>> },
     userId : { <<117>> }, body : FieldValues("body"),
     secret : FieldValues("secret")]

\* generateSignature applied to a record of its seven inputs
Sign(r) ==
    generateSignature(r.method, r.path, r.timestamp, r.deviceId, r.userId,
                      r.body, r.secret)

MangleKinds == {"undefined", "empty", "truncated", "noise", "changed"}

\* a signature header v, damaged on its way
Mangle(kind, v) ==
    CASE kind = "undefined" -> JsUndefined
      [] kind = "empty" -> JsStr(<<>>)
      [] kind = "truncated" -> JsStr(SubSeq(v.s, 1, Len(v.s) - 4))
      [] kind = "noise" -> JsStr(<<33>> \o v.s \o <<32>>)
      [] kind = "changed" ->
            JsStr(<<(IF v.s[1] = 65 THEN 66 ELSE 65)>> \o Tail(v.s))

SigInit ==
    /\ sReq \in SigInputs
    /\ sReq2 = sReq
    /\ sSigA = JsUndefined
    /\ sSigB = JsUndefined
    /\ sMangleA = "none"
    /\ sMangleB = "none"
    /\ sOut = JsUndefined
    /\ sPc = "start"
    \* nothing is encrypted
    /\ cEnv = [DATA_ENCRYPTION_KEY |-> JsUndefined, ADMIN_TOKEN |-> JsUndefined]
    /\ cText = JsNull /\ cEnvelope = JsNull
    /\ cTamper = "none" /\ cOut = JsUndefined /\ cPc = "idle"
    \* no request is at the gate
    /\ gCache = <<>> /\ gEnforce = FALSE /\ gReq = <<>> /\ gSigned = <<>>
    /\ gState = "idle" /\ gStep = 0 /\ gReason = "" /\ gContext = JsUndefined
    /\ gHistory = <<>>
    \* the server process is not running
    /\ env = [DATA_ENCRYPTION_KEY |-> JsUndefined, ADMIN_TOKEN |-> JsUndefined]
    /\ server = "off" /\ store = <<>> /\ cache = <<>> /\ registry = <<>>
    /\ pools = <<>> /\ lock = <<>>
    /\ callPc = <<>> /\ callTenant = <<>> /\ callResult = <<>> /\ callPath = <<>>
    /\ adminPc = <<>> /\ adminReq = <<>> /\ adminFetched = <<>> /\ adminStatus = 0

\* one of the seven inputs of the second signature is changed
SigFlip ==
    /\ sPc = "start"
    /\ \E f \in FieldNames : \E v \in FieldValues(f) :
        /\ v # sReq[f]
        /\ sReq2' = [sReq EXCEPT ![f] = v]
    /\ sPc' = "flipped"
    /\ UNCHANGED <<sReq, sSigA, sSigB, sMangleA, sMangleB, sOut, otherThanSig>>

\* both signatures are computed
SigSign ==
    /\ sPc \in {"start", "flipped"}
    /\ sSigA' = JsStr(Sign(sReq))
    /\ sSigB' = JsStr(Sign(sReq2))
    /\ sPc' = "signed"
    /\ UNCHANGED <<sReq, sReq2, sMangleA, sMangleB, sOut, otherThanSig>>

\* the candidate signature is damaged
SigMangleA ==
    /\ sPc = "signed" /\ sMangleA = "none"
    /\ \E kind \in MangleKinds :
        /\ sSigA' = Mangle(kind, sSigA)
        /\ sMangleA' = kind
    /\ UNCHANGED <<sReq, sReq2, sSigB, sMangleB, sOut, sPc, otherThanSig>>

\* the expected signature is damaged
SigMangleB ==
    /\ sPc = "signed" /\ sMangleB = "none"
    /\ \E kind \in MangleKinds :
        /\ sSigB' = Mangle(kind, sSigB)
        /\ sMangleB' = kind
    /\ UNCHANGED <<sReq, sReq2, sSigA, sMangleA, sOut, sPc, otherThanSig>>

\* verifySignature(signature, expectedSignature)
SigVerify ==
    /\ sPc = "signed"
    /\ sOut' = verifySignature(sSigA, sSigB)
    /\ sPc' = "verified"
    /\ UNCHANGED <<sReq, sReq2, sSigA, sSigB, sMangleA, sMangleB, otherThanSig>>

SigNext == SigFlip \/ SigSign \/ SigMangleA \/ SigMangleB \/ SigVerify

\* ------------------------------------------------------------------------
\* The auth gate (middleware/auth.js, verifyAuth), one request
\* ------------------------------------------------------------------------

\* "t1": a tenant with a cached config; "t2": a tenant with none
TenantT1 == <<116, 49>>
TenantT2 == <<116, 50>>
TenantIds == {TenantT1, TenantT2}

\* X-Project-ID, X-API-Key, X-Signature, X-Timestamp, X-Device-ID, X-User-ID
HeaderNames == {"projectId", "apiKey", "signature", "timestamp", "deviceId", "userId"}

\* timestamps inside the tolerance window of the server's clock ("2")
FreshTimestamps == { <<50>> }

\* the signature header a client sends: computed over its own timestamp with
\* its own secret, then possibly damaged
ClientSignature(req, signed) ==
    LET sig == JsStr(generateSignature(req.method, req.path, signed.timestamp,
                        req.deviceId.s, req.userId.s, req.body, signed.secret))
    IN IF signed.damage = "none" THEN sig ELSE Mangle(signed.damage, sig)

\* the request r without header miss ("none": with all six)
WithoutHeader(r, miss) == IF miss = "none" THEN r ELSE [r EXCEPT ![miss] = JsUndefined]

\* the requests drawn: tenant, timestamp, what was signed, one header missing
GateRequests ==
    { [req |-> WithoutHeader([r EXCEPT !.signature = ClientSignature(r, sg)], miss),
       signed |-> sg] :
        miss \in HeaderNames \cup {"none"},
        sg \in [timestamp : { <<49>>, <<50>> },
                secret : FieldValues("secret"),
                damage : {"none", "noise", "changed"}],
        r \in { [projectId |-> JsStr(t), apiKey |-> JsStr(<<107>>),
                 signature |-> JsUndefined, timestamp |-> JsStr(ts),
                 deviceId |-> JsStr(<<100>>), userId |-> JsStr(<<117>>),
                 method |-> <<71>>, path |-> <<47, 97>>, body |-> <<>>] :
                 t \in TenantIds, ts \in { <<49>>, <<50>> } } }

GateInit ==
    /\ gCache = [t \in TenantIds |->
                    IF t = TenantT1 THEN [secret |-> JsStr(<<97, 49>>)]
                    ELSE [secret |-> JsUndefined]]
    /\ gEnforce \in BOOLEAN
    /\ \E g \in GateRequests : gSigned = g.signed /\ gReq = g.req
    /\ gState = "Unverified"
    /\ gStep = 1
    /\ gReason = ""
    /\ gContext = JsUndefined
    /\ gHistory = <<"Unverified">>
    \* nothing is encrypted
    /\ cEnv = [DATA_ENCRYPTION_KEY |-> JsUndefined, ADMIN_TOKEN |-> JsUndefined]
    /\ cText = JsNull /\ cEnvelope = JsNull
    /\ cTamper = "none" /\ cOut = JsUndefined /\ cPc = "idle"
    \* nothing is signed
    /\ sReq = <<>> /\ sReq2 = <<>>
    /\ sSigA = JsUndefined /\ sSigB = JsUndefined
    /\ sMangleA = "none" /\ sMangleB = "none"
    /\ sOut = JsUndefined /\ sPc = "idle"
    \* the server process is not running
    /\ env = [DATA_ENCRYPTION_KEY |-> JsUndefined, ADMIN_TOKEN |-> JsUndefined]
    /\ server = "off" /\ store = <<>> /\ cache = <<>> /\ registry = <<>>
    /\ pools = <<>> /\ lock = <<>>
    /\ callPc = <<>> /\ callTenant = <<>> /\ callResult = <<>> /\ callPath = <<>>
    /\ adminPc = <<>> /\ adminReq = <<>> /\ adminFetched = <<>> /\ adminStatus = 0

\* all six identity headers are present
AllPresent(req) == \A h \in HeaderNames : Truthy(req[h])

\* the config the cache holds for the request's tenant, or undefined
GateConfig(req) ==
    IF req.projectId.t = "str" /\ req.projectId.s \in DOMAIN gCache
        /\ gCache[req.projectId.s].secret.t = "str"
    THEN gCache[req.projectId.s] ELSE JsUndefined

\* the signature the gate expects: sign(...) with the tenant's secret
ExpectedSignature(req, config) ==
    JsStr(generateSignature(req.method, req.path, req.timestamp.s, req.deviceId.s,
                            req.userId.s, req.body, config.secret.s))

GateReject(reason) ==
    /\ gState' = "Rejected"
    /\ gReason' = reason
    /\ gHistory' = Append(gHistory, "Rejected")
    /\ UNCHANGED <<gStep, gContext>>

\* step 1: extract the six headers; a missing one rejects the request
GateExtract ==
    /\ gState = "Unverified" /\ gStep = 1
    /\ IF ~AllPresent(gReq) THEN GateReject("missing credential field")
       ELSE /\ gStep' = 2
            /\ UNCHANGED <<gState, gReason, gContext, gHistory>>
    /\ UNCHANGED <<gCache, gEnforce, gReq, gSigned, otherThanGate>>

\* step 2: resolve the tenant's cached config; none rejects the request
GateResolve ==
    /\ gState = "Unverified" /\ gStep = 2
    /\ IF GateConfig(gReq) = JsUndefined THEN GateReject("unknown tenant")
       ELSE /\ gStep' = 3
            /\ UNCHANGED <<gState, gReason, gContext, gHistory>>
    /\ UNCHANGED <<gCache, gEnforce, gReq, gSigned, otherThanGate>>

\* step 3: recompute the signature and compare; a mismatch rejects the request
GateVerify ==
    /\ gState = "Unverified" /\ gStep = 3
    /\ IF verifySignature(gReq.signature, ExpectedSignature(gReq, GateConfig(gReq))) # JsTrue
       THEN GateReject("invalid signature")
       ELSE /\ gState' = "Verified"
            /\ gStep' = 4
            /\ gHistory' = Append(gHistory, "Verified")
            /\ UNCHANGED <<gReason, gContext>>
    /\ UNCHANGED <<gCache, gEnforce, gReq, gSigned, otherThanGate>>

\* steps 4 and 5: the timestamp window, when enforced, then the tenant context
\* is attached and the request admitted
GateAdmit ==
    /\ gState = "Verified" /\ gStep = 4
    /\ IF gEnforce /\ gReq.timestamp.s \notin FreshTimestamps
       THEN GateReject("stale or future timestamp")
       ELSE /\ gState' = "Admitted"
            /\ gContext' = gReq.projectId
            /\ gHistory' = Append(gHistory, "Admitted")
            /\ UNCHANGED <<gStep, gReason>>
    /\ UNCHANGED <<gCache, gEnforce, gReq, gSigned, otherThanGate>>

GateNext == GateExtract \/ GateResolve \/ GateVerify \/ GateAdmit

\* ------------------------------------------------------------------------
\* The server process: start-up (server.js), admin routes (routes/admin.js),
\* tenant config cache (config/projects.js), pool router (config/database.js)
\* ------------------------------------------------------------------------

\* concurrent callers of getPool
NumCallers == 2
\* concurrent admin requests
NumAdmins == 2
\* pools constructed in one run
MaxPools == 2

Callers == 1..NumCallers
Admins == 1..NumAdmins
Tenants == {TenantT1}

\* "p1", "p2": database passwords
PasswordP1 == <<112, 49>>
PasswordP2 == <<112, 50>>

\* db_password of a request body: absent, empty, a new password, or a JSON
\* value that is no string
BodyPasswords == {JsUndefined, JsStr(<<>>), JsStr(PasswordP1), JsStr(PasswordP2), JsTrue}

\* the token a request carries: the configured one, another ("no"), none
RequestTokens == {TokenTk, JsStr(<<110, 111>>), JsUndefined}

ServerEnvs ==
    [DATA_ENCRYPTION_KEY : {JsUndefined, KeyK1}, ADMIN_TOKEN : {JsUndefined, TokenTk}]

\* process.env of the admin router: also with ADMIN_TOKEN set to ''
AdminEnvs ==
    ServerEnvs \cup {[DATA_ENCRYPTION_KEY |-> KeyK1, ADMIN_TOKEN |-> JsStr(<<>>)]}

\* a row of analytics_projects
Row(active, secret) ==
    [exists |-> TRUE, is_active |-> active, db_password_encrypted |-> secret]
NoRow == [exists |-> FALSE, is_active |-> FALSE, db_password_encrypted |-> JsNull]

\* a cached tenant config, and the absence of one
Config(secret) == [present |-> TRUE, secret |-> secret]
NoConfig == [present |-> FALSE, secret |-> JsUndefined]

\* what a handler holds of its request: the operation, :id, db_password
NoRequest == [op |-> "none", tenant |-> <<>>, db_password |-> JsUndefined]
NoResult == [kind |-> "none", pool |-> 0]

\* the secret a row written by an earlier run holds: "p1" under the master key
\* of that run
StoredSecret(e) ==
    encrypt(JsStr(PasswordP1),
            IF Truthy(MasterKey(e)) THEN e
            ELSE [DATA_ENCRYPTION_KEY |-> KeyK1, ADMIN_TOKEN |-> JsUndefined],
            [i \in 1..BlockLen |-> (7 * i) % 256])

\* what crypto.randomBytes(16) returns in a handler: not the IV of the stored
\* secret
AdminIvs == {iv \in Ivs : iv[1] # 7}

\* encrypt(db_password) for every environment, password and IV of a run,
\* computed once
Encrypted ==
    {[env |-> e, text |-> pw, iv |-> iv, out |-> encrypt(pw, e, iv)] :
        e \in AdminEnvs, pw \in {w \in BodyPasswords : Truthy(w)}, iv \in AdminIvs}

EncryptOf(pw, e, iv) ==
    (CHOOSE r \in Encrypted : r.env = e /\ r.text = pw /\ r.iv = iv).out

\* decrypt(db_password_encrypted) for every environment and every secret a row
\* can hold, computed once
Decrypted ==
    {[env |-> e, text |-> s, out |-> decrypt(s, e)] :
        e \in AdminEnvs,
        s \in {StoredSecret(x) : x \in AdminEnvs}
              \cup {r.out : r \in {q \in Encrypted : q.out # Thrown}}}

DecryptOf(s, e) ==
    (CHOOSE r \in Decrypted : r.env = e /\ r.text = s).out

ServerInit ==
    /\ env \in ServerEnvs
    /\ server = "starting"
    /\ \E active \in BOOLEAN : store = [t \in Tenants |-> Row(active, StoredSecret(env))]
    /\ cache = [t \in Tenants |-> NoConfig]
    /\ registry = [t \in Tenants |-> 0]
    /\ pools = <<>>
    /\ lock = <<>>
    /\ callPc = [c \in Callers |-> "idle"]
    /\ callTenant = [c \in Callers |-> TenantT1]
    /\ callResult = [c \in Callers |-> NoResult]
    /\ callPath = [c \in Callers |-> "none"]
    /\ adminPc = [a \in Admins |-> "idle"]
    /\ adminReq = [a \in Admins |-> NoRequest]
    /\ adminFetched = [a \in Admins |-> NoConfig]
    /\ adminStatus = 0
    \* nothing is encrypted
    /\ cEnv = [DATA_ENCRYPTION_KEY |-> JsUndefined, ADMIN_TOKEN |-> JsUndefined]
    /\ cText = JsNull /\ cEnvelope = JsNull
    /\ cTamper = "none" /\ cOut = JsUndefined /\ cPc = "idle"
    \* nothing is signed
    /\ sReq = <<>> /\ sReq2 = <<>>
    /\ sSigA = JsUndefined /\ sSigB = JsUndefined
    /\ sMangleA = "none" /\ sMangleB = "none"
    /\ sOut = JsUndefined /\ sPc = "idle"
    \* no request is at the gate
    /\ gCache = <<>> /\ gEnforce = FALSE /\ gReq = <<>> /\ gSigned = <<>>
    /\ gState = "idle" /\ gStep = 0 /\ gReason = "" /\ gContext = JsUndefined
    /\ gHistory = <<>>

\* --- start-up ---

\* startServer: autoInitSystemDatabase(); an exception ends the process
StartAutoInit ==
    /\ server = "starting"
    /\ server' \in {"initialized", "exited"}
    /\ UNCHANGED <<env, store, routerVars, callVars, adminVars, otherThanServer>>

\* the config of a fetched row: none for a missing or inactive row, and none
\* when its secret cannot be decrypted
ConfigOf(row, e) ==
    IF ~row.exists \/ ~row.is_active THEN NoConfig
    ELSE IF row.db_password_encrypted = JsNull THEN Config(JsNull)
    ELSE LET d == DecryptOf(row.db_password_encrypted, e) IN
        IF d = Thrown \/ d = JsNull THEN NoConfig ELSE Config(d)

\* ProjectManager load(): every active row, decrypted, into the cache
StartLoad ==
    /\ server = "initialized"
    /\ cache' = [t \in Tenants |-> ConfigOf(store[t], env)]
    /\ server' = "loaded"
    /\ UNCHANGED <<env, store, registry, pools, lock, callVars, adminVars, otherThanServer>>

\* startServer: testConnection() (a failure only warns), then app.listen
StartListen ==
    /\ server = "loaded"
    /\ server' = "listening"
    /\ UNCHANGED <<env, store, routerVars, callVars, adminVars, otherThanServer>>

\* --- pool router ---

\* closePool that leaves the pool open and registered
ClosePoolKeep(t, reg, pls) ==
    [registry |-> reg, pools |-> pls]

\* closePool(tenantId): end the tenant's pool and drop it from the registry
ClosePool(t, reg, pls) ==
    IF reg[t] = 0 THEN [registry |-> reg, pools |-> pls]
    ELSE [registry |-> [reg EXCEPT ![t] = 0],
          pools |-> [pls EXCEPT ![reg[t]].closes = @ + 1]]

\* getPool under the lock, without looking for a pool registered meanwhile
GetOrCreateNoRecheck(t, reg, pls, cch) ==
    IF ~cch[t].present
    THEN [registry |-> reg, pools |-> pls, result |-> [kind |-> "notFound", pool |-> 0]]
    ELSE [registry |-> [reg EXCEPT ![t] = Len(pls) + 1],
          pools |-> Append(pls, [tenant |-> t, secret |-> cch[t].secret, closes |-> 0]),
          result |-> [kind |-> "pool", pool |-> Len(pls) + 1]]

\* getPool under the lock: the registered pool, or a new one from the cached
\* config, or "tenant unknown"
GetOrCreate(t, reg, pls, cch) ==
    IF reg[t] # 0
    THEN [registry |-> reg, pools |-> pls, result |-> [kind |-> "pool", pool |-> reg[t]]]
    ELSE IF ~cch[t].present
    THEN [registry |-> reg, pools |-> pls, result |-> [kind |-> "notFound", pool |-> 0]]
    ELSE [registry |-> [reg EXCEPT ![t] = Len(pls) + 1],
          pools |-> Append(pls, [tenant |-> t, secret |-> cch[t].secret, closes |-> 0]),
          result |-> [kind |-> "pool", pool |-> Len(pls) + 1]]

\* getPool(tenantId): an existing pool is returned without the lock
GetPoolFast(c) ==
    /\ server = "listening" /\ callPc[c] = "idle"
    /\ \E t \in Tenants :
        /\ callTenant' = [callTenant EXCEPT ![c] = t]
        /\ IF registry[t] # 0
           THEN /\ callResult' = [callResult EXCEPT ![c] = [kind |-> "pool", pool |-> registry[t]]]
                /\ callPath' = [callPath EXCEPT ![c] = "fast"]
                /\ callPc' = [callPc EXCEPT ![c] = "done"]
           ELSE /\ callPc' = [callPc EXCEPT ![c] = "wait"]
                /\ UNCHANGED <<callResult, callPath>>
    /\ UNCHANGED <<env, server, store, routerVars, adminVars, otherThanServer>>

\* getPool: first creation takes the lock
GetPoolLock(c) ==
    /\ callPc[c] = "wait" /\ lock = <<>> /\ Len(pools) < MaxPools
    /\ lock' = <<"caller", c>>
    /\ callPc' = [callPc EXCEPT ![c] = "locked"]
    /\ UNCHANGED <<env, server, store, cache, registry, pools, callTenant, callResult,
                   callPath, adminVars, otherThanServer>>

\* getPool: get or create under the lock, register, release
GetPoolCreate(c) ==
    /\ callPc[c] = "locked"
    /\ LET r == GetOrCreate(callTenant[c], registry, pools, cache) IN
        /\ registry' = r.registry
        /\ pools' = r.pools
        /\ callResult' = [callResult EXCEPT ![c] = r.result]
    /\ callPath' = [callPath EXCEPT ![c] = "slow"]
    /\ callPc' = [callPc EXCEPT ![c] = "done"]
    /\ lock' = <<>>
    /\ UNCHANGED <<env, server, store, cache, callTenant, adminVars, otherThanServer>>

\* the caller is done with the handle
GetPoolReturn(c) ==
    /\ callPc[c] = "done"
    /\ callPc' = [callPc EXCEPT ![c] = "idle"]
    /\ callResult' = [callResult EXCEPT ![c] = NoResult]
    /\ callPath' = [callPath EXCEPT ![c] = "none"]
    /\ UNCHANGED <<env, server, store, routerVars, callTenant, adminVars, otherThanServer>>

\* --- admin routes ---

\* requireAdminToken with the check of the configured token left out
RequireAdminTokenUnchecked(token, e) ==
    IF token = e.ADMIN_TOKEN THEN 0 ELSE 401

\* requireAdminToken: 0 lets the request through, else the status it answers
RequireAdminToken(token, e) ==
    IF ~Truthy(e.ADMIN_TOKEN) THEN 500
    ELSE IF Truthy(token) /\ token = e.ADMIN_TOKEN THEN 0
    ELSE 401

\* the UPDATE that also overwrites db_password_encrypted when no password came
UpdatedRowAlways(row, isActive, encryptedPassword) ==
    [row EXCEPT !.is_active = isActive, !.db_password_encrypted = encryptedPassword]

\* the row after the UPDATE: the password column is set only when a new
\* password was encrypted
UpdatedRow(row, isActive, encryptedPassword) ==
    IF Truthy(encryptedPassword)
    THEN [row EXCEPT !.is_active = isActive, !.db_password_encrypted = encryptedPassword]
    ELSE [row EXCEPT !.is_active = isActive]

\* the handler answers and is done
AdminAnswer(a, status) ==
    /\ adminStatus' = status
    /\ adminPc' = [adminPc EXCEPT ![a] = "idle"]
    /\ adminReq' = [adminReq EXCEPT ![a] = NoRequest]
    /\ adminFetched' = [adminFetched EXCEPT ![a] = NoConfig]

\* the handler answers 200 after the UPDATE without reloadProject
AnswerWithoutReload(a, t, pw) ==
    AdminAnswer(a, 200)

\* a row was updated: the handler awaits reloadProject(project_id)
AwaitReload(a, t, pw) ==
    /\ adminPc' = [adminPc EXCEPT ![a] = "reloadWait"]
    /\ adminReq' = [adminReq EXCEPT ![a] =
            [op |-> "update", tenant |-> t, db_password |-> pw]]
    /\ UNCHANGED <<adminFetched, adminStatus>>

\* PUT /projects/:id after the token check: encrypt, UPDATE, 404 or reload
UpdateQuery(a, t, pw, act, iv) ==
    LET encryptedPassword == IF Truthy(pw) THEN EncryptOf(pw, env, iv) ELSE JsNull IN
    IF encryptedPassword = Thrown THEN AdminAnswer(a, 500) /\ UNCHANGED store
    ELSE IF ~store[t].exists THEN AdminAnswer(a, 404) /\ UNCHANGED store
    ELSE /\ store' = [store EXCEPT ![t] = UpdatedRow(@, act, encryptedPassword)]
         /\ AwaitReload(a, t, pw)

\* PUT /projects/:id up to the UPDATE: token check, encrypt, query
AdminUpdate(a) ==
    /\ server = "listening" /\ adminPc[a] = "idle"
    /\ \E t \in Tenants, pw \in BodyPasswords, act \in BOOLEAN,
          tok \in RequestTokens, iv \in AdminIvs :
        LET gate == RequireAdminToken(tok, env) IN
        IF gate # 0 THEN AdminAnswer(a, gate) /\ UNCHANGED store
        ELSE UpdateQuery(a, t, pw, act, iv)
    /\ UNCHANGED <<env, server, routerVars, callVars, otherThanServer>>

\* reloadProject(projectId): only the id is passed on; take the lock
ReloadLock(a) ==
    /\ adminPc[a] = "reloadWait" /\ lock = <<>>
    /\ lock' = <<"admin", a>>
    /\ adminPc' = [adminPc EXCEPT ![a] = "reloadLocked"]
    /\ adminReq' = [adminReq EXCEPT ![a] =
            [op |-> "reload", tenant |-> @.tenant, db_password |-> JsUndefined]]
    /\ UNCHANGED <<env, server, store, cache, registry, pools, callVars,
                   adminFetched, adminStatus, otherThanServer>>

\* reloadProject: fetch the row again
ReloadFetch(a) ==
    /\ adminPc[a] = "reloadLocked"
    /\ adminFetched' = [adminFetched EXCEPT ![a] = ConfigOf(store[adminReq[a].tenant], env)]
    /\ adminPc' = [adminPc EXCEPT ![a] = "reloadFetched"]
    /\ UNCHANGED <<env, server, store, routerVars, callVars, adminReq, adminStatus,
                   otherThanServer>>

\* reloadProject: replace (or remove) the cache entry, close the tenant's pool
\* (a reload that found the config unchanged may leave the pool alone),
\* release; the handler answers 200
ReloadInstall(a) ==
    /\ adminPc[a] = "reloadFetched"
    /\ LET t == adminReq[a].tenant
           r == ClosePool(t, registry, pools)
       IN /\ cache' = [cache EXCEPT ![t] = adminFetched[a]]
          /\ \E invalidate \in IF adminFetched[a] = cache[t] THEN BOOLEAN ELSE {TRUE} :
                IF invalidate
                THEN registry' = r.registry /\ pools' = r.pools
                ELSE UNCHANGED <<registry, pools>>
    /\ lock' = <<>>
    /\ AdminAnswer(a, 200)
    /\ UNCHANGED <<env, server, store, callVars, otherThanServer>>

\* DELETE /projects/:id after the token check: DELETE, 404 or closePool
DeleteQuery(a, t) ==
    IF ~store[t].exists THEN AdminAnswer(a, 404) /\ UNCHANGED store
    ELSE /\ store' = [store EXCEPT ![t] = NoRow]
         /\ adminPc' = [adminPc EXCEPT ![a] = "closeWait"]
         /\ adminReq' = [adminReq EXCEPT ![a] =
                 [op |-> "delete", tenant |-> t, db_password |-> JsUndefined]]
         /\ UNCHANGED <<adminFetched, adminStatus>>

\* DELETE /projects/:id up to the DELETE: token check, query
AdminDelete(a) ==
    /\ server = "listening" /\ adminPc[a] = "idle"
    /\ \E t \in Tenants, tok \in RequestTokens :
        LET gate == RequireAdminToken(tok, env) IN
        IF gate # 0 THEN AdminAnswer(a, gate) /\ UNCHANGED store
        ELSE DeleteQuery(a, t)
    /\ UNCHANGED <<env, server, routerVars, callVars, otherThanServer>>

\* closePool(projectId) of the delete handler: take the lock
CloseLock(a) ==
    /\ adminPc[a] = "closeWait" /\ lock = <<>>
    /\ lock' = <<"admin", a>>
    /\ adminPc' = [adminPc EXCEPT ![a] = "closing"]
    /\ UNCHANGED <<env, server, store, cache, registry, pools, callVars, adminReq,
                   adminFetched, adminStatus, otherThanServer>>

\* closePool: close, release; the handler answers 200
CloseDone(a) ==
    /\ adminPc[a] = "closing"
    /\ LET r == ClosePool(adminReq[a].tenant, registry, pools) IN
        /\ registry' = r.registry
        /\ pools' = r.pools
    /\ lock' = <<>>
    /\ AdminAnswer(a, 200)
    /\ UNCHANGED <<env, server, store, cache, callVars, otherThanServer>>

ServerNext ==
    \/ StartAutoInit \/ StartLoad \/ StartListen
    \/ \E c \in Callers : GetPoolFast(c) \/ GetPoolLock(c) \/ GetPoolCreate(c) \/ GetPoolReturn(c)
    \/ \E a \in Admins : AdminUpdate(a) \/ ReloadLock(a) \/ ReloadFetch(a) \/ ReloadInstall(a)
    \/ \E a \in Admins : AdminDelete(a) \/ CloseLock(a) \/ CloseDone(a)

\* ------------------------------------------------------------------------
\* The admin router (routes/admin.js): requireAdminToken before every route
\* ------------------------------------------------------------------------

\* "Bearer", " "
BEARER == <<66, 101, 97, 114, 101, 114>>
SPACE == <<32>>

\* "no": a token that is not the configured one
TokenNo == JsStr(<<110, 111>>)

\* s.split(c)
RECURSIVE Split(_, _)
Split(s, c) ==
    IF \A i \in DOMAIN s : s[i] # c THEN <<s>>
    ELSE LET at == CHOOSE i \in DOMAIN s : s[i] = c /\ \A j \in 1..(i - 1) : s[j] # c
         IN <<SubSeq(s, 1, at - 1)>> \o Split(SubSeq(s, at + 1, Len(s)), c)

\* the token requireAdminToken takes from the request: req.query.token, else
\* the x-admin-token header, else the second word of "Bearer <token>"
RequestToken(rq) ==
    LET token == JsOr(rq.query, rq.header) IN
    IF ~Truthy(token) /\ Truthy(rq.authorization)
    THEN LET parts == Split(rq.authorization.s, SPACE[1]) IN
        IF Len(parts) = 2 /\ parts[1] = BEARER THEN JsStr(parts[2]) ELSE token
    ELSE token

\* what a request carries: ?token= (absent, empty, a string, or repeated and so
\* no string), x-admin-token, authorization
AdminCredentials ==
    [query : {JsUndefined, JsStr(<<>>), TokenTk, TokenNo, JsTrue},
     header : {JsUndefined, TokenTk, TokenNo},
     authorization :
        {JsUndefined,
         JsStr(BEARER \o SPACE \o TokenTk.s),
         JsStr(BEARER \o SPACE \o TokenNo.s),
         JsStr(<<98>> \o Tail(BEARER) \o SPACE \o TokenTk.s),
         JsStr(BEARER \o SPACE \o SPACE \o TokenTk.s),
         JsStr(TokenTk.s)}]

\* the routes of the router that read only
ReadRoutes == {"test", "init", "health"}

\* the server is listening; the tenant's row is loaded and its pool is open
AdminInit ==
    /\ env \in AdminEnvs
    /\ server = "listening"
    /\ store = [t \in Tenants |-> Row(TRUE, StoredSecret(env))]
    /\ cache = [t \in Tenants |-> ConfigOf(store[t], env)]
    /\ pools = IF cache[TenantT1].present
               THEN <<[tenant |-> TenantT1, secret |-> cache[TenantT1].secret, closes |-> 0]>>
               ELSE <<>>
    /\ registry = [t \in Tenants |-> IF cache[t].present THEN 1 ELSE 0]
    /\ lock = <<>>
    /\ callPc = <<>> /\ callTenant = <<>> /\ callResult = <<>> /\ callPath = <<>>
    /\ adminPc = [a \in Admins |-> "idle"]
    /\ adminReq = [a \in Admins |-> NoRequest]
    /\ adminFetched = [a \in Admins |-> NoConfig]
    /\ adminStatus = 0
    \* nothing is encrypted
    /\ cEnv = [DATA_ENCRYPTION_KEY |-> JsUndefined, ADMIN_TOKEN |-> JsUndefined]
    /\ cText = JsNull /\ cEnvelope = JsNull
    /\ cTamper = "none" /\ cOut = JsUndefined /\ cPc = "idle"
    \* nothing is signed
    /\ sReq = <<>> /\ sReq2 = <<>>
    /\ sSigA = JsUndefined /\ sSigB = JsUndefined
    /\ sMangleA = "none" /\ sMangleB = "none"
    /\ sOut = JsUndefined /\ sPc = "idle"
    \* no request is at the gate
    /\ gCache = <<>> /\ gEnforce = FALSE /\ gReq = <<>> /\ gSigned = <<>>
    /\ gState = "idle" /\ gStep = 0 /\ gReason = "" /\ gContext = JsUndefined
    /\ gHistory = <<>>

\* a request for /api/admin/... arrives
AdminArrive(a) ==
    /\ server = "listening" /\ adminPc[a] = "idle"
    /\ \E cr \in AdminCredentials :
        adminReq' = [adminReq EXCEPT ![a] =
            [op |-> "request", tenant |-> <<>>, db_password |-> JsUndefined,
             query |-> cr.query, header |-> cr.header,
             authorization |-> cr.authorization]]
    /\ adminPc' = [adminPc EXCEPT ![a] = "guard"]
    /\ UNCHANGED <<env, server, store, routerVars, callVars, adminFetched, adminStatus,
                   otherThanServer>>

\* router.use(requireAdminToken): 500, 401, or next()
AdminGuard(a) ==
    /\ adminPc[a] = "guard"
    /\ LET gate == RequireAdminToken(RequestToken(adminReq[a]), env) IN
        IF gate # 0 THEN AdminAnswer(a, gate)
        ELSE /\ adminPc' = [adminPc EXCEPT ![a] = "handler"]
             /\ adminReq' = [adminReq EXCEPT ![a] = NoRequest]
             /\ UNCHANGED <<adminFetched, adminStatus>>
    /\ UNCHANGED <<env, server, store, routerVars, callVars, otherThanServer>>

\* GET /projects
RouteList(a) ==
    /\ adminPc[a] = "handler"
    /\ AdminAnswer(a, 200)
    /\ UNCHANGED <<env, server, store, routerVars, callVars, otherThanServer>>

\* POST /projects: encrypt, INSERT (a second row of the id fails), then
\* reloadProject; success is recorded as 200
RouteCreate(a) ==
    /\ adminPc[a] = "handler"
    /\ \E t \in Tenants, pw \in BodyPasswords, iv \in AdminIvs :
        LET encryptedPassword == IF Truthy(pw) THEN EncryptOf(pw, env, iv) ELSE JsNull IN
        IF encryptedPassword = Thrown \/ store[t].exists
        THEN AdminAnswer(a, 500) /\ UNCHANGED store
        ELSE /\ store' = [store EXCEPT ![t] = Row(TRUE, encryptedPassword)]
             /\ AwaitReload(a, t, pw)
    /\ UNCHANGED <<env, server, routerVars, callVars, otherThanServer>>

\* PUT /projects/:id
RouteUpdate(a) ==
    /\ adminPc[a] = "handler"
    /\ \E t \in Tenants, pw \in BodyPasswords, act \in BOOLEAN, iv \in AdminIvs :
        UpdateQuery(a, t, pw, act, iv)
    /\ UNCHANGED <<env, server, routerVars, callVars, otherThanServer>>

\* DELETE /projects/:id
RouteDelete(a) ==
    /\ adminPc[a] = "handler"
    /\ \E t \in Tenants : DeleteQuery(a, t)
    /\ UNCHANGED <<env, server, routerVars, callVars, otherThanServer>>

\* POST /projects/:id/test, POST /projects/:id/init, GET /projects/:id/health:
\* SELECT the row, 404 without one, else connect to the tenant's database
\* (a pool of its own, outside the registry): 200, or 500 when that fails
RouteRead(a) ==
    /\ adminPc[a] = "handler"
    /\ \E route \in ReadRoutes, t \in Tenants, connected \in BOOLEAN :
        AdminAnswer(a, IF ~store[t].exists THEN 404 ELSE IF connected THEN 200 ELSE 500)
    /\ UNCHANGED <<env, server, store, routerVars, callVars, otherThanServer>>

AdminNext ==
    \/ \E a \in Admins : AdminArrive(a) \/ AdminGuard(a)
    \/ \E a \in Admins : RouteList(a) \/ RouteCreate(a) \/ RouteUpdate(a)
    \/ \E a \in Admins : RouteDelete(a) \/ RouteRead(a)
    \/ \E a \in Admins : ReloadLock(a) \/ ReloadFetch(a) \/ ReloadInstall(a)
    \/ \E a \in Admins : CloseLock(a) \/ CloseDone(a)

\* ------------------------------------------------------------------------
\* Specifications
\* ------------------------------------------------------------------------

SpecCrypto == CryptoInit /\ [][CryptoNext]_vars

SpecSig == SigInit /\ [][SigNext]_vars

SpecAuth == GateInit /\ [][GateNext]_vars

Spec == ServerInit /\ [][ServerNext]_vars

SpecAdmin == AdminInit /\ [][AdminNext]_vars

\* ------------------------------------------------------------------------
\* Properties of encrypt and decrypt
\* ------------------------------------------------------------------------

\* the envelope is the one encrypt returned, and the master key is the same
Untouched == cTamper = "none"

\* C5 as stated: for every non-empty plaintext x and every configured master
\* key, decrypt(encrypt(x)) = x, whichever IV encrypt drew.
C5_RoundTripAnyString ==
    (cPc = "decrypted" /\ Untouched /\ Len(cText.s) > 0) => cOut = cText

\* C5 amended: for every non-empty plaintext x without unpaired surrogates and
\* every configured master key, decrypt(encrypt(x)) = x, whichever IV encrypt
\* drew; an unpaired surrogate comes back as U+FFFD.
C5_RoundTrip ==
    (cPc = "decrypted" /\ Untouched /\ Len(cText.s) > 0) =>
        /\ WellFormed(cText.s) => cOut = cText
        /\ cOut.t = "str"
        /\ cOut.s = Utf8Decode(Utf8Encode(cText.s))

\* a four-byte character went through encrypt and decrypt and came back
C5_Witness ==
    /\ cPc = "decrypted" /\ Untouched
    /\ cText = JsStr(<<55357, 56832>>)
    /\ cOut = cText

\* the inputs C6 calls malformed
MalformedKinds == TamperKinds \cup {"otherKey"}

\* C6 as stated: decrypt of any malformed input (bad or short IV, non-hex or
\* truncated ciphertext, ciphertext under another key, missing separator)
\* returns null and never raises.
C6_MalformedGivesNull ==
    (cPc = "decrypted" /\ cTamper \in MalformedKinds) => cOut = JsNull

\* C6 amended: with a master key configured, decrypt of a malformed input never
\* raises; it returns null when the IV does not decode to 16 bytes or the
\* ciphertext does not decode to a whole positive number of blocks; it returns
\* an input without ":" unchanged; and it ignores non-hex characters that
\* follow a well-formed IV or ciphertext.
C6_MalformedNeverRaises ==
    (cPc = "decrypted" /\ cTamper \in MalformedKinds) =>
        /\ cOut # Thrown
        /\ cTamper \in {"shortIv", "nonHexIv", "nonHexCipher", "truncatedOdd",
                        "truncatedEven", "noCipher", "secondColon"}
              => cOut = JsNull
        /\ cTamper = "noSeparator" => cOut = cEnvelope
        /\ cTamper \in {"ivJunkTail", "junkTail"} => cOut.t = "str"

\* decrypt caught the exception of a short IV and returned null
C6_Witness ==
    cPc = "decrypted" /\ cTamper = "shortIv" /\ cOut = JsNull

\* ------------------------------------------------------------------------
\* Properties of generateSignature and verifySignature
\* ------------------------------------------------------------------------

\* the message generateSignature signs for a record of inputs
MessageOf(r) ==
    SignedMessage(r.method, r.path, r.timestamp, r.deviceId, r.userId, r.body)

\* both signatures are as generateSignature returned them
Unmangled == sMangleA = "none" /\ sMangleB = "none"

\* C7: verifySignature never throws; it returns true exactly when both
\* arguments are strings that decode to equal byte strings, and false on a
\* value that cannot be decoded or on decoded lengths that differ.
C7_VerifyNeverThrows ==
    sPc = "verified" =>
        /\ sOut \in {JsTrue, JsFalse}
        /\ sOut = JsTrue <=>
              /\ sSigA.t = "str" /\ sSigB.t = "str"
              /\ FromBase64(sSigA.s) = FromBase64(sSigB.s)
        /\ (sSigA.t # "str" \/ sSigB.t # "str") => sOut = JsFalse
        /\ (sSigA.t = "str" /\ sSigB.t = "str"
                /\ Len(FromBase64(sSigA.s)) # Len(FromBase64(sSigB.s)))
              => sOut = JsFalse

\* a candidate three bytes short of the expected signature was refused
C7_Witness ==
    /\ sPc = "verified" /\ sMangleA = "truncated" /\ sMangleB = "none"
    /\ Len(FromBase64(sSigA.s)) < Len(FromBase64(sSigB.s))
    /\ sOut = JsFalse

\* C9: two signatures of the same seven inputs verify; changing one of the
\* seven inputs changes the signed message or the key, and with it the
\* signature, which then no longer verifies.
C9_SignThenVerify ==
    (sPc \in {"signed", "verified"} /\ Unmangled) =>
        /\ sReq2 = sReq =>
              /\ sSigA = sSigB
              /\ sPc = "verified" => sOut = JsTrue
        /\ sReq2 # sReq =>
              /\ MessageOf(sReq2) # MessageOf(sReq) \/ sReq2.secret # sReq.secret
              /\ sSigA # sSigB
              /\ sPc = "verified" => sOut = JsFalse

\* a signature over another userId was compared and refused
C9_Witness ==
    /\ sPc = "verified" /\ Unmangled
    /\ sReq2.userId # sReq.userId
    /\ sOut = JsFalse

\* ------------------------------------------------------------------------
\* Properties of the auth gate
\* ------------------------------------------------------------------------

GateTerminal == {"Admitted", "Rejected"}

\* a step of the gate can be taken (the guards of GateNext)
GateCanStep ==
    \/ gState = "Unverified" /\ gStep \in {1, 2, 3}
    \/ gState = "Verified" /\ gStep = 4

\* C4: every request ends in exactly one terminal state, and is Admitted only
\* if all six identity headers are present, the tenant has a cached config and
\* the provided signature verifies against sign(method, path, timestamp,
\* deviceId, userId, body, tenantSecret); a signature computed with another
\* timestamp than the request's X-Timestamp is Rejected.
C4_AdmittedOnlyIfVerified ==
    /\ gState \in GateTerminal <=> ~GateCanStep
    /\ \A i \in 1..(Len(gHistory) - 1) : gHistory[i] \notin GateTerminal
    /\ gState = "Admitted" =>
          /\ AllPresent(gReq)
          /\ GateConfig(gReq) # JsUndefined
          /\ verifySignature(gReq.signature,
                             ExpectedSignature(gReq, GateConfig(gReq))) = JsTrue
          /\ gContext = gReq.projectId
    /\ (gState \in GateTerminal /\ AllPresent(gReq)
            /\ gSigned.timestamp # gReq.timestamp.s) => gState = "Rejected"

\* a request whose signature was computed over another timestamp, with the
\* right secret, was rejected at the signature check
C4_Witness ==
    /\ gState = "Rejected" /\ gReason = "invalid signature"
    /\ gSigned.timestamp # gReq.timestamp.s
    /\ gSigned.secret = gCache[gReq.projectId.s].secret.s
    /\ gSigned.damage = "none"

\* ------------------------------------------------------------------------
\* Properties of the server process
\* ------------------------------------------------------------------------

\* an UPDATE of the tenant's row whose reloadProject has not completed
Reloading(t) ==
    \E a \in Admins :
        /\ adminPc[a] \in {"reloadWait", "reloadLocked", "reloadFetched"}
        /\ adminReq[a].tenant = t

\* the tenant's pools that are not closed
OpenPools(t) == {i \in DOMAIN pools : pools[i].tenant = t /\ pools[i].closes = 0}

\* caller c's getPool returns in this step
Returns(c) == callPc[c] # "done" /\ callPc'[c] = "done"

\* C1: in every state a tenant has at most one open pool and it is the
\* registered one, so concurrent first callers construct one pool only, and
\* callers that hold an open handle of a tenant hold the same handle.
C1_OnePoolPerTenant ==
    /\ \A t \in DOMAIN registry :
        /\ Cardinality(OpenPools(t)) <= 1
        /\ registry[t] # 0 => registry[t] \in OpenPools(t)
        /\ OpenPools(t) # {} => registry[t] \in OpenPools(t)
    /\ \A c \in DOMAIN callPc :
        callPc[c] = "done" /\ callResult[c].kind = "pool"
            => /\ callResult[c].pool \in DOMAIN pools
               /\ pools[callResult[c].pool].tenant = callTenant[c]
               /\ pools[callResult[c].pool].closes = 0
                    => registry[callTenant[c]] = callResult[c].pool
    /\ \A c \in DOMAIN callPc, d \in DOMAIN callPc :
        /\ callPc[c] = "done" /\ callPc[d] = "done"
        /\ callPath[c] = "slow" /\ callPath[d] = "slow"
        /\ callTenant[c] = callTenant[d]
        /\ callResult[c].kind = "pool" /\ callResult[d].kind = "pool"
        /\ \A i \in DOMAIN pools : pools[i].closes = 0
        => callResult[c].pool = callResult[d].pool

\* two callers both went through the lock and hold the one pool constructed
C1_Witness ==
    /\ server = "listening" /\ Len(pools) = 1
    /\ \E c \in Callers, d \in Callers :
        /\ c # d
        /\ callPc[c] = "done" /\ callPc[d] = "done"
        /\ callPath[c] = "slow" /\ callPath[d] = "slow"
        /\ callResult[c] = [kind |-> "pool", pool |-> 1]
        /\ callResult[d] = [kind |-> "pool", pool |-> 1]

\* C2: reloadProject installs the config it fetched and, when that differs
\* from the cached one, closes the pool that was open for the tenant, exactly
\* once; no pool is ever closed twice or reopened; and once
\* the reload of every UPDATE has completed, a getPool for an active tenant
\* that returns gives an open pool built from the stored secret, never a pool
\* from an older one.
C2_ReloadClosesOnceAndRenews ==
    [][ /\ \A i \in DOMAIN pools :
            /\ pools'[i].closes <= 1
            /\ pools'[i].closes >= pools[i].closes
        /\ \A a \in DOMAIN adminPc :
            adminPc[a] = "reloadFetched" /\ adminPc'[a] = "idle"
                => LET t == adminReq[a].tenant IN
                    /\ cache'[t] = adminFetched[a]
                    /\ \A i \in DOMAIN pools :
                        i # registry[t] => pools'[i] = pools[i]
                    /\ adminFetched[a] # cache[t]
                        => /\ registry'[t] = 0
                           /\ registry[t] # 0 => pools'[registry[t]].closes = 1
        /\ \A c \in DOMAIN callPc :
            LET t == callTenant'[c] IN
            /\ Returns(c)
            /\ ~Reloading(t)
            /\ store[t].exists /\ store[t].is_active
            /\ ConfigOf(store[t], env).present
            => /\ callResult'[c].kind = "pool"
               /\ pools'[callResult'[c].pool].closes = 0
               /\ pools'[callResult'[c].pool].secret = ConfigOf(store[t], env).secret
      ]_vars

\* after a password change and its reload the pool of the old password is
\* closed and a caller holds an open pool of the new one
C2_Witness ==
    /\ \A t \in Tenants : ~Reloading(t)
    /\ \E i \in DOMAIN pools :
        pools[i].closes = 1 /\ pools[i].secret = JsStr(PasswordP1)
    /\ \E c \in Callers :
        /\ callPc[c] = "done" /\ callResult[c].kind = "pool"
        /\ pools[callResult[c].pool].closes = 0
        /\ pools[callResult[c].pool].secret = JsStr(PasswordP2)

\* C3: once the reload (or the load) that follows a deactivation is complete,
\* the tenant has no cache entry and no pool, and a getPool that returns
\* answers "tenant not found".
C3_DeactivatedIsNotFound ==
    [][ \A t \in DOMAIN store' :
            /\ server' = "listening"
            /\ ~Reloading(t)'
            /\ store'[t].exists /\ ~store'[t].is_active
            => /\ ~cache'[t].present
               /\ registry'[t] = 0
               /\ \A c \in DOMAIN callPc :
                    Returns(c) /\ callTenant'[c] = t
                        => callResult'[c] = [kind |-> "notFound", pool |-> 0]
      ]_vars

\* a tenant that had a pool was deactivated; the reload is done, the pool is
\* closed, and a caller got "tenant not found"
C3_Witness ==
    /\ server = "listening" /\ adminStatus = 200
    /\ \E t \in Tenants :
        /\ ~Reloading(t)
        /\ store[t].exists /\ ~store[t].is_active
        /\ \E i \in DOMAIN pools : pools[i].tenant = t /\ pools[i].closes = 1
        /\ \E c \in Callers :
            /\ callPc[c] = "done" /\ callTenant[c] = t
            /\ callResult[c].kind = "notFound"

\* C8 (as stated): without a master key the process is never serving and
\* answering a request with an error.
C8_MissingKeyIsFatal ==
    ~Truthy(MasterKey(env)) => ~(server = "listening" /\ adminStatus >= 500)

\* hexIV:hexCiphertext of whole blocks
IsEnvelope(v) ==
    /\ v.t = "str"
    /\ Len(v.s) >= 2 * BlockLen + 1 + 2 * BlockLen
    /\ v.s[2 * BlockLen + 1] = COLON[1]
    /\ (Len(v.s) - 2 * BlockLen - 1) % (2 * BlockLen) = 0
    /\ \A i \in DOMAIN v.s : i # 2 * BlockLen + 1 => HexVal(v.s[i]) >= 0

\* handler a does its UPDATE in this step
Updates(a) == adminPc[a] = "idle" /\ adminPc'[a] = "reloadWait"

\* C10: the UPDATE leaves db_password_encrypted as it was when the request has
\* no or an empty db_password, and else sets it to an envelope that decrypts
\* to the new password; it never stores the password itself nor null, and no
\* other step of a handler changes the column of a row.
C10_UpdateKeepsOrEncrypts ==
    [][ /\ \A a \in DOMAIN adminPc :
            Updates(a) =>
                LET t == adminReq'[a].tenant
                    pw == adminReq'[a].db_password
                    old == store[t].db_password_encrypted
                    new == store'[t].db_password_encrypted
                IN /\ store[t].exists /\ store'[t].exists
                   /\ ~Truthy(pw) => new = old
                   /\ Truthy(pw) =>
                        /\ IsEnvelope(new)
                        /\ new # pw
                        /\ DecryptOf(new, env) = pw
                   /\ old # JsNull => new # JsNull
        /\ \A r \in DOMAIN store :
            /\ store[r].exists /\ store'[r].exists
            /\ store'[r].db_password_encrypted # store[r].db_password_encrypted
            => \E h \in DOMAIN adminPc :
                Updates(h) /\ adminReq'[h].tenant = r /\ Truthy(adminReq'[h].db_password)
      ]_vars

\* one handler has replaced the secret by an envelope of "p2", then another
\* has updated the row without a password
C10_Witness ==
    /\ \E t \in Tenants :
        /\ store[t].exists
        /\ store[t].db_password_encrypted # StoredSecret(env)
        /\ DecryptOf(store[t].db_password_encrypted, env) = JsStr(PasswordP2)
    /\ \E a \in Admins :
        adminPc[a] = "reloadWait" /\ ~Truthy(adminReq[a].db_password)

\* ------------------------------------------------------------------------
\* Properties of the admin router
\* ------------------------------------------------------------------------

\* "Bearer <token>": the word Bearer, one space, and a word
IsBearer(auth) ==
    /\ auth.t = "str"
    /\ Len(auth.s) > Len(BEARER)
    /\ SubSeq(auth.s, 1, Len(BEARER) + 1) = BEARER \o SPACE
    /\ \A i \in (Len(BEARER) + 2)..Len(auth.s) : auth.s[i] # SPACE[1]

\* the token a request presents: the query parameter first, then the
\* X-Admin-Token header, then the Bearer authorization
Presented(rq) ==
    IF Truthy(rq.query) THEN rq.query
    ELSE IF Truthy(rq.header) THEN rq.header
    ELSE IF IsBearer(rq.authorization)
    THEN JsStr(SubSeq(rq.authorization.s, Len(BEARER) + 2, Len(rq.authorization.s)))
    ELSE JsUndefined

\* where a handler is once it runs
RunningPcs == {"handler", "reloadWait", "reloadLocked", "reloadFetched", "closeWait", "closing"}

\* C11: requireAdminToken lets a request through to its handler exactly when
\* ADMIN_TOKEN is configured and the token the request presents equals it;
\* with ADMIN_TOKEN not configured it answers 500, with a missing or other
\* token 401, and it touches neither the rows, the config cache nor a pool;
\* only a handler that was let through changes any of those.
C11_NoHandlerWithoutToken ==
    [][ /\ \A a \in DOMAIN adminPc :
            /\ adminPc[a] = "guard" /\ adminPc'[a] # "guard"
                => LET configured == Truthy(env.ADMIN_TOKEN)
                       equal == configured /\ Presented(adminReq[a]) = env.ADMIN_TOKEN
                   IN /\ adminPc'[a] = "handler" <=> equal
                      /\ ~configured => adminPc'[a] = "idle" /\ adminStatus' = 500
                      /\ configured /\ ~equal => adminPc'[a] = "idle" /\ adminStatus' = 401
                      /\ store' = store /\ cache' = cache
                      /\ registry' = registry /\ pools' = pools
            /\ adminPc'[a] \in RunningPcs /\ adminPc[a] \notin RunningPcs
                => adminPc[a] = "guard" /\ adminPc'[a] = "handler"
        /\ store' # store \/ cache' # cache \/ registry' # registry \/ pools' # pools
            => \E h \in DOMAIN adminPc : adminPc[h] \in RunningPcs /\ adminPc'[h] # adminPc[h]
      ]_vars

\* one request with the configured token in a Bearer authorization is at its
\* handler; another with another Bearer token was answered 401 and the row,
\* the cache entry and the pool are as they were
C11_Witness ==
    /\ Truthy(env.ADMIN_TOKEN) /\ adminStatus = 401
    /\ store = [t \in Tenants |-> Row(TRUE, StoredSecret(env))]
    /\ \A t \in Tenants : cache[t].present /\ registry[t] = 1
    /\ Len(pools) = 1 /\ pools[1].closes = 0
    /\ \E a \in Admins, b \in Admins :
        /\ adminPc[a] = "handler"
        /\ adminPc[b] = "guard"
        /\ ~Truthy(adminReq[b].query) /\ ~Truthy(adminReq[b].header)
        /\ adminReq[b].authorization = JsStr(BEARER \o SPACE \o TokenTk.s)

\* ------------------------------------------------------------------------
\* Properties of the delete handler
\* ------------------------------------------------------------------------

\* the tenant's row is deleted and the closePool of its delete has completed
Deleted(t) ==
    /\ server = "listening"
    /\ ~store[t].exists
    /\ \A a \in DOMAIN adminPc :
        adminPc[a] \in {"closeWait", "closing"} => adminReq[a].tenant # t

\* C12 (as stated): once a tenant is deleted it has no pool in the registry and
\* no entry in the config cache.
C12_DeletedTenantIsGone ==
    \A t \in DOMAIN store :
        Deleted(t) => registry[t] = 0 /\ ~cache[t].present

====
